---- MODULE Spec2Model ----
(***************************************************************************)
(* Model of scripts/update_lrs_tiers.py: add_enhanced_tiers, which adds    *)
(* the xxs and xxl tiers to every model of an LRS registry, and main,      *)
(* which rewrites style_config.json and person_config.json with it.        *)
(*                                                                         *)
(* Python objects live in a heap (a sequence of objects, the address of an *)
(* object is its index).  A dict object is [dict |-> items] with items the *)
(* insertion-ordered sequence of <<key, value>> pairs; a list object is    *)
(* [list |-> elements].  A value held by a dict is [num |-> n] (int),      *)
(* [flt |-> n] (float, in units of 1e-9), [str |-> s] or [ref |-> a] (a    *)
(* reference to the dict or list at address a).  The strings of            *)
(* optimizer_args are sequences of characters.                             *)
(***************************************************************************)
EXTENDS Integers, Sequences, FiniteSets, TLC

VARIABLES heap, pre, config_data, result, calls,
          pc, style_file, person_file, style_config, person_config,
          written, failed

vars == <<heap, pre, config_data, result, calls,
          pc, style_file, person_file, style_config, person_config,
          written, failed>>

(***************************************************************************)
(* Bounds of the model.                                                    *)
(***************************************************************************)
MaxTiers == 3
MaxCalls == 2
MaxEpochs == 12
MaxBatch == 13
MaxWarmup == 1

(***************************************************************************)
(* Python values and dict operations.                                      *)
(***************************************************************************)
Num(n) == [num |-> n]
Flt(n) == [flt |-> n]
Str(s) == [str |-> s]
Ref(a) == [ref |-> a]

IsRef(v) == "ref" \in DOMAIN v
IsDictObj(o) == "dict" \in DOMAIN o
IsDict(h, v) == IsRef(v) /\ IsDictObj(h[v.ref])

Max(a, b) == IF a >= b THEN a ELSE b
Min(a, b) == IF a <= b THEN a ELSE b

\* k in d
Has(items, k) == \E i \in 1..Len(items) : items[i][1] = k
IndexOf(items, k) == CHOOSE i \in 1..Len(items) : items[i][1] = k
\* d.get(k, dflt)
Get(items, k, dflt) == IF Has(items, k) THEN items[IndexOf(items, k)][2] ELSE dflt
\* d[k] = v on an insertion-ordered dict: an existing key keeps its position
Set(items, k, v) ==
    IF Has(items, k) THEN [items EXCEPT ![IndexOf(items, k)] = <<k, v>>]
    ELSE Append(items, <<k, v>>)

RECURSIVE SetAll(_, _)
\* {**acc, **items}
SetAll(acc, items) ==
    IF items = <<>> THEN acc
    ELSE SetAll(Set(acc, Head(items)[1], Head(items)[2]), Tail(items))

\* {"xxs": v, **items}
PrependXxs(v, items) == SetAll(<< <<"xxs", v>> >>, items)

\* heap operations
Alloc(h, obj) == Append(h, obj)
NewAddr(h) == Len(h) + 1
SetItem(h, a, k, v) == [h EXCEPT ![a] = [dict |-> Set(h[a].dict, k, v)]]

\* variant of CopyDict: the dict itself where line 23 or 47 takes a copy
CopyDictAlias(h, a) == [h |-> h, a |-> a]

\* d.copy(): a new dict object holding the same values (shallow)
CopyDict(h, a) == [h |-> Alloc(h, h[a]), a |-> NewAddr(h)]

(***************************************************************************)
(* str(list) and the substring test of line 35.                            *)
(***************************************************************************)
WeightDecay == <<"w","e","i","g","h","t","_","d","e","c","a","y">>
ArgBetas == <<"b","e","t","a","s","=","(","0",".","9",","," ","0",".","9","9","9",")">>
ArgWeightDecay == WeightDecay \o <<"=","0",".","0","0","0","2">>
ArgEps == <<"e","p","s","=","1","e","-","0","8">>
FixedOptimizerArgs == <<ArgBetas, ArgWeightDecay, ArgEps>>

\* what a registry file can hold besides a JSON document
Absent == [absent |-> TRUE]
Garbage == [text |-> "not json"]

Repr(s) == <<"'">> \o s \o <<"'">>

RECURSIVE JoinRepr(_)
JoinRepr(l) ==
    IF l = <<>> THEN <<>>
    ELSE IF Len(l) = 1 THEN Repr(l[1])
    ELSE Repr(l[1]) \o <<",", " ">> \o JoinRepr(Tail(l))

PyStr(l) == <<"[">> \o JoinRepr(l) \o <<"]">>

Contains(hay, needle) ==
    \E i \in 0..(Len(hay) - Len(needle)) :
        SubSeq(hay, i + 1, i + Len(needle)) = needle

(***************************************************************************)
(* Floating-point constants, in units of 1e-9.                             *)
(***************************************************************************)
XxsNoiseOffset == 15000000
XxlNoiseOffset == 45000000
UnetLrCap == 50000
TextEncoderLrCap == 2500

\* x * (n/d) on the grid
Scale(x, n, d) == (x * n) \div d

(***************************************************************************)
(* Lines 23-41: the xxs tier, written into the copy at address a.          *)
(***************************************************************************)
XxsEpochs(items) == Get(items, "max_train_epochs", Num(38)).num + 7

XxsLr(x) == Scale(x, 8, 10)

ScaleXxsLr(h, a, k) ==
    IF Has(h[a].dict, k) THEN SetItem(h, a, k, Flt(XxsLr(Get(h[a].dict, k, Flt(0)).flt)))
    ELSE h

\* str(xxs_config.get("optimizer_args", []))
OptimizerArgsStr(h, a) ==
    LET v == Get(h[a].dict, "optimizer_args", Ref(0))
    IN  IF v = Ref(0) THEN PyStr(<<>>) ELSE PyStr(h[v.ref].list)

\* variant of RewritesOptimizerArgs: an argument with the key weight_decay
\* instead of a rendering that contains the word
RewritesOnKey(h, a) ==
    LET v == Get(h[a].dict, "optimizer_args", Ref(0))
    IN  /\ v # Ref(0)
        /\ \E i \in 1..Len(h[v.ref].list) :
               /\ Len(h[v.ref].list[i]) > Len(WeightDecay)
               /\ SubSeq(h[v.ref].list[i], 1, Len(WeightDecay) + 1) = WeightDecay \o <<"=">>

RewritesOptimizerArgs(h, a) == Contains(OptimizerArgsStr(h, a), WeightDecay)

DeriveXXS(h, a) ==
    LET h1 == SetItem(h, a, "max_train_epochs", Num(XxsEpochs(h[a].dict)))
        h2 == SetItem(h1, a, "train_batch_size", Num(2))
        h3 == SetItem(h2, a, "gradient_accumulation_steps", Num(4))
        h4 == ScaleXxsLr(h3, a, "unet_lr")
        h5 == ScaleXxsLr(h4, a, "text_encoder_lr")
        h6 == SetItem(h5, a, "noise_offset", Flt(XxsNoiseOffset))
        h7 == SetItem(h6, a, "lr_scheduler", Str("constant_with_warmup"))
        h8 == SetItem(h7, a, "max_data_loader_n_workers", Num(2))
    IN  IF RewritesOptimizerArgs(h8, a)
        THEN SetItem(Alloc(h8, [list |-> FixedOptimizerArgs]), a,
                     "optimizer_args", Ref(NewAddr(h8)))
        ELSE h8

(***************************************************************************)
(* Lines 47-59: the xxl tier, written into the copy at address a.          *)
(***************************************************************************)
\* variant of XxlEpochs: no floor of 8
XxlEpochsNoFloor(items) == Get(items, "max_train_epochs", Num(11)).num - 3

XxlEpochs(items) == Max(8, Get(items, "max_train_epochs", Num(11)).num - 3)
XxlBatch(items) == Min(16, Get(items, "train_batch_size", Num(12)).num + 4)
XxlWarmup(items) == Get(items, "lr_warmup_steps", Num(120)).num + 30
XxlLr(x, cap) == Min(cap, Scale(x, 115, 100))

ScaleXxlLr(h, a, k, cap) ==
    IF Has(h[a].dict, k)
    THEN SetItem(h, a, k, Flt(XxlLr(Get(h[a].dict, k, Flt(0)).flt, cap)))
    ELSE h

DeriveXXL(h, a) ==
    LET h1 == SetItem(h, a, "max_train_epochs", Num(XxlEpochs(h[a].dict)))
        h2 == SetItem(h1, a, "train_batch_size", Num(XxlBatch(h1[a].dict)))
        h3 == SetItem(h2, a, "gradient_accumulation_steps", Num(1))
        h4 == ScaleXxlLr(h3, a, "unet_lr", UnetLrCap)
        h5 == ScaleXxlLr(h4, a, "text_encoder_lr", TextEncoderLrCap)
        h6 == SetItem(h5, a, "noise_offset", Flt(XxlNoiseOffset))
        h7 == SetItem(h6, a, "lr_scheduler", Str("cosine"))
        h8 == SetItem(h7, a, "lr_warmup_steps", Num(XxlWarmup(h7[a].dict)))
    IN  SetItem(h8, a, "max_data_loader_n_workers", Num(8))

(***************************************************************************)
(* Lines 13-65: one iteration of the loop over config_data["data"].        *)
(***************************************************************************)
\* variant of Skipped: line 14 without the test for the xs key
SkippedNoXsTest(h, v) ==
    \/ ~IsDict(h, v)
    \/ (Has(h[v.ref].dict, "xxs") /\ Has(h[v.ref].dict, "xxl"))

\* lines 14-17: the entries the loop leaves alone
Skipped(h, v) ==
    \/ ~IsDict(h, v)
    \/ ~Has(h[v.ref].dict, "xs")
    \/ (Has(h[v.ref].dict, "xxs") /\ Has(h[v.ref].dict, "xxl"))

\* lines 19-20: model_config.get(k, {}); the default is a new empty dict
GetOrEmpty(h, mc, k) ==
    IF Has(h[mc].dict, k) THEN [h |-> h, a |-> Get(h[mc].dict, k, Ref(0)).ref]
    ELSE [h |-> Alloc(h, [dict |-> <<>>]), a |-> NewAddr(h)]

\* variant of AddXxs: line 44 as model_config["xxs"] = xxs_config
AddXxsInPlace(h, mc, xs) ==
    LET c == CopyDict(h, xs)
    IN  IF c.h[c.a].dict # <<>>
        THEN [h |-> SetItem(DeriveXXS(c.h, c.a), mc, "xxs", Ref(c.a)), mc |-> mc]
        ELSE [h |-> c.h, mc |-> mc]

\* lines 23-44: returns the heap and the address model_config is bound to
AddXxs(h, mc, xs) ==
    LET c == CopyDict(h, xs)
    IN  IF c.h[c.a].dict # <<>>
        THEN LET hd == DeriveXXS(c.h, c.a)
             IN  [h |-> Alloc(hd, [dict |-> PrependXxs(Ref(c.a), hd[mc].dict)]),
                  mc |-> NewAddr(hd)]
        ELSE [h |-> c.h, mc |-> mc]

\* variant of AddXxl: line 47 without the copy
AddXxlNoCopy(h, mc, xl) ==
    IF h[xl].dict # <<>>
    THEN SetItem(DeriveXXL(h, xl), mc, "xxl", Ref(xl))
    ELSE h

\* lines 47-62
AddXxl(h, mc, xl) ==
    LET c == CopyDict(h, xl)
    IN  IF c.h[c.a].dict # <<>>
        THEN SetItem(DeriveXXL(c.h, c.a), mc, "xxl", Ref(c.a))
        ELSE c.h

ProcessModel(h, data, i) ==
    LET model_hash == h[data].dict[i][1]
        v == h[data].dict[i][2]
    IN  IF Skipped(h, v) THEN h
        ELSE LET xs == GetOrEmpty(h, v.ref, "xs")
                 xl == GetOrEmpty(xs.h, v.ref, "xl")
                 s == AddXxs(xl.h, v.ref, xs.a)
                 hl == AddXxl(s.h, s.mc, xl.a)
             IN  SetItem(hl, data, model_hash, Ref(s.mc))

RECURSIVE Loop(_, _, _)
Loop(h, data, i) ==
    IF i > Len(h[data].dict) THEN h
    ELSE Loop(ProcessModel(h, data, i), data, i + 1)

\* add_enhanced_tiers(config_data): raised when config_data["data"] fails
\* (TypeError, KeyError) or has no items() (AttributeError); returns
\* config_data itself
add_enhanced_tiers(h, cd) ==
    IF \/ ~IsDictObj(h[cd])
       \/ ~Has(h[cd].dict, "data")
       \/ ~IsDict(h, Get(h[cd].dict, "data", Ref(0)))
    THEN [raised |-> TRUE, h |-> h, ret |-> 0]
    ELSE [raised |-> FALSE,
          h |-> Loop(h, Get(h[cd].dict, "data", Ref(0)).ref, 1),
          ret |-> cd]

(***************************************************************************)
(* json.load and json.dump.  A JSON document is a value without addresses: *)
(* [dict |-> items] with nested documents as values, [list |-> strings],   *)
(* or a scalar.  Loading allocates one fresh object per object and array   *)
(* of the document; dumping follows the references.                        *)
(***************************************************************************)
D(items) == [dict |-> items]
L(elems) == [list |-> elems]

RECURSIVE Load(_, _), LoadItems(_, _, _)
Load(h, doc) ==
    IF "dict" \in DOMAIN doc
    THEN LET r == LoadItems(h, doc.dict, <<>>)
         IN  [h |-> Alloc(r.h, [dict |-> r.items]), v |-> Ref(NewAddr(r.h))]
    ELSE IF "list" \in DOMAIN doc
    THEN [h |-> Alloc(h, doc), v |-> Ref(NewAddr(h))]
    ELSE [h |-> h, v |-> doc]

LoadItems(h, items, acc) ==
    IF items = <<>> THEN [h |-> h, items |-> acc]
    ELSE LET r == Load(h, Head(items)[2])
         IN  LoadItems(r.h, Tail(items), Append(acc, <<Head(items)[1], r.v>>))

RECURSIVE Dump(_, _), DumpItems(_, _)
Dump(h, v) ==
    IF ~IsRef(v) THEN v
    ELSE IF IsDictObj(h[v.ref]) THEN [dict |-> DumpItems(h, h[v.ref].dict)]
    ELSE h[v.ref]

DumpItems(h, items) ==
    IF items = <<>> THEN <<>>
    ELSE << <<Head(items)[1], Dump(h, Head(items)[2])>> >> \o DumpItems(h, Tail(items))

(***************************************************************************)
(* The registries the model is run on.                                     *)
(***************************************************************************)
TierNames == {"xxs", "xs", "m", "xl", "xxl"}

ArgLists ==
    { L(<<>>),
      L(<<WeightDecay \o <<"=","0",".","0","1">> >>),
      L(<<ArgEps>>),
      L(<< <<"w","e","i","g","h","t">>, <<"_","d","e","c","a","y">> >>),
      L(<<ArgEps, <<"x">> \o WeightDecay \o <<"_","r","a","t","e","=","1">> >>) }

EmptyCfg == D(<<>>)
XsBase == D(<< <<"max_train_epochs", Num(38)>>, <<"unet_lr", Flt(100000)>>,
               <<"optimizer_args", L(<<ArgEps>>)>> >>)
XlBase == D(<< <<"max_train_epochs", Num(11)>>, <<"train_batch_size", Num(12)>>,
               <<"optimizer_args", L(<<ArgEps>>)>> >>)
MBase == D(<< <<"max_train_epochs", Num(20)>> >>)
OldXxs == D(<< <<"max_train_epochs", Num(1)>> >>)
OldXxl == D(<< <<"max_train_epochs", Num(99)>> >>)
BaseTable == D(<< <<"xs", XsBase>>, <<"xl", XlBase>> >>)

Cfg(k, xsEmpty, xlEmpty) ==
    CASE k = "xs" -> (IF xsEmpty THEN EmptyCfg ELSE XsBase)
      [] k = "xl" -> (IF xlEmpty THEN EmptyCfg ELSE XlBase)
      [] k = "xxs" -> OldXxs
      [] k = "xxl" -> OldXxl
      [] OTHER -> MBase

RECURSIVE TableItems(_, _, _)
TableItems(keys, xsEmpty, xlEmpty) ==
    IF keys = <<>> THEN <<>>
    ELSE << <<Head(keys), Cfg(Head(keys), xsEmpty, xlEmpty)>> >>
         \o TableItems(Tail(keys), xsEmpty, xlEmpty)

\* the sequences of at most MaxTiers distinct tier names
KeySeqs ==
    UNION { { s \in [1..n -> TierNames] : \A i, j \in 1..n : i # j => s[i] # s[j] }
            : n \in 0..MaxTiers }

\* tier tables of every shape: any tiers in any order, xs and xl empty or not,
\* xxs or xxl already present or not
ShapeTables ==
    { D(TableItems(s, e, f)) : s \in KeySeqs, e \in BOOLEAN, f \in BOOLEAN }

Opt(k, vals) == {<<>>} \cup { << <<k, v>> >> : v \in vals }

\* xs configs with every combination of the fields the xxs rules read
XsConfigs ==
    { D(a \o b \o c \o d \o e \o f) :
        a \in Opt("max_train_epochs", {Num(38), Num(40)}),
        b \in Opt("unet_lr", {Flt(100000)}),
        c \in Opt("text_encoder_lr", {Flt(1000)}),
        d \in Opt("optimizer_args", ArgLists),
        e \in Opt("network_dim", {Num(32)}),
        f \in Opt("train_batch_size", {Num(4)}) }

\* xl configs with every combination of the fields the xxl rules read
XlConfigs ==
    { D(a \o b \o c \o d \o e) :
        a \in Opt("max_train_epochs", {Num(n) : n \in 1..MaxEpochs}),
        b \in Opt("train_batch_size", {Num(n) : n \in 1..MaxBatch}),
        c \in Opt("lr_warmup_steps", {Num(n) : n \in 0..MaxWarmup}),
        d \in {<<>>,
               << <<"unet_lr", Flt(1000)>>, <<"text_encoder_lr", Flt(1000)>> >>,
               << <<"unet_lr", Flt(100000)>>, <<"text_encoder_lr", Flt(10000)>> >>},
        e \in Opt("optimizer_args", {L(<<ArgEps>>)}) }

Doc(models) == D(<< <<"data", D(models)>> >>)

Registries ==
    { Doc(<< <<"h0", e0>>, <<"h1", t>> >>) : e0 \in {Num(0), BaseTable}, t \in ShapeTables }
    \cup { Doc(<< <<"h1", D(<< <<"xs", x>>, <<"xl", XlBase>> >>)>> >>) : x \in XsConfigs }
    \cup { Doc(<< <<"h1", D(<< <<"xs", XsBase>>, <<"xl", x>> >>)>> >>) : x \in XlConfigs }

(***************************************************************************)
(* A caller that holds a loaded registry and calls add_enhanced_tiers on   *)
(* it, then again on what it returned.                                     *)
(***************************************************************************)

Init ==
    \E doc \in Registries :
        /\ heap = Load(<<>>, doc).h
        /\ pre = heap
        /\ config_data = Load(<<>>, doc).v.ref
        /\ result = 0
        /\ calls = 0
        /\ pc = "caller"
        /\ style_file = Absent /\ person_file = Absent
        /\ style_config = 0 /\ person_config = 0
        /\ written = {} /\ failed = "none"

Call ==
    /\ pc = "caller"
    /\ calls < MaxCalls
    /\ LET r == add_enhanced_tiers(heap, config_data)
       IN  /\ ~r.raised
           /\ heap' = r.h
           /\ result' = r.ret
    /\ pre' = heap
    /\ calls' = calls + 1
    /\ UNCHANGED <<config_data, pc, style_file, person_file, style_config,
                   person_config, written, failed>>

Next == Call

Spec == Init /\ [][Next]_vars

(***************************************************************************)
(* main: style_config.json, then person_config.json, each one loaded,      *)
(* augmented and written back.  A file is Absent, Garbage (not JSON) or    *)
(* holds a JSON document.                                                  *)
(***************************************************************************)
MainTables == {BaseTable} \cup { t \in ShapeTables : Len(t.dict) <= 1 }

FileContents ==
    { Absent, Garbage, D(<<>>), L(<<>>), D(<< <<"data", L(<<>>)>> >>) }
    \cup { Doc(<< <<"h1", t>> >>) : t \in MainTables }

\* open(path, 'r') or json.load raises
Unreadable(file) == file = Absent \/ file = Garbage

InitMain ==
    /\ style_file \in FileContents
    /\ person_file \in FileContents
    /\ heap = <<>> /\ pre = <<>>
    /\ config_data = 0 /\ result = 0 /\ calls = 0
    /\ pc = "load_style"
    /\ style_config = 0 /\ person_config = 0
    /\ written = {} /\ failed = "none"

Abort(name) ==
    /\ pc' = "aborted"
    /\ failed' = name

LoadStyle ==
    /\ pc = "load_style"
    /\ IF Unreadable(style_file)
       THEN Abort("style") /\ UNCHANGED <<heap, style_config>>
       ELSE /\ heap' = Load(heap, style_file).h
            /\ style_config' = Load(heap, style_file).v.ref
            /\ pc' = "augment_style"
            /\ UNCHANGED failed
    /\ UNCHANGED <<pre, config_data, result, calls, style_file, person_file,
                   person_config, written>>

\* variant of AugmentStyle: the file opened for writing before the call
AugmentStyleOpenFirst ==
    /\ pc = "augment_style"
    /\ written' = written \cup {"style"}
    /\ style_file' = Garbage
    /\ LET r == add_enhanced_tiers(heap, style_config)
       IN  IF r.raised
           THEN Abort("style") /\ UNCHANGED <<heap, style_config>>
           ELSE /\ heap' = r.h
                /\ style_config' = r.ret
                /\ pc' = "write_style"
                /\ UNCHANGED failed
    /\ UNCHANGED <<pre, config_data, result, calls, person_file, person_config>>

AugmentStyle ==
    /\ pc = "augment_style"
    /\ LET r == add_enhanced_tiers(heap, style_config)
       IN  IF r.raised
           THEN Abort("style") /\ UNCHANGED <<heap, style_config>>
           ELSE /\ heap' = r.h
                /\ style_config' = r.ret
                /\ pc' = "write_style"
                /\ UNCHANGED failed
    /\ UNCHANGED <<pre, config_data, result, calls, style_file, person_file,
                   person_config, written>>

WriteStyle ==
    /\ pc = "write_style"
    /\ style_file' = Dump(heap, Ref(style_config))
    /\ written' = written \cup {"style"}
    /\ pc' = "load_person"
    /\ UNCHANGED <<heap, pre, config_data, result, calls, person_file,
                   style_config, person_config, failed>>

LoadPerson ==
    /\ pc = "load_person"
    /\ IF Unreadable(person_file)
       THEN Abort("person") /\ UNCHANGED <<heap, person_config>>
       ELSE /\ heap' = Load(heap, person_file).h
            /\ person_config' = Load(heap, person_file).v.ref
            /\ pc' = "augment_person"
            /\ UNCHANGED failed
    /\ UNCHANGED <<pre, config_data, result, calls, style_file, person_file,
                   style_config, written>>

AugmentPerson ==
    /\ pc = "augment_person"
    /\ LET r == add_enhanced_tiers(heap, person_config)
       IN  IF r.raised
           THEN Abort("person") /\ UNCHANGED <<heap, person_config>>
           ELSE /\ heap' = r.h
                /\ person_config' = r.ret
                /\ pc' = "write_person"
                /\ UNCHANGED failed
    /\ UNCHANGED <<pre, config_data, result, calls, style_file, person_file,
                   style_config, written>>

WritePerson ==
    /\ pc = "write_person"
    /\ person_file' = Dump(heap, Ref(person_config))
    /\ written' = written \cup {"person"}
    /\ pc' = "done"
    /\ UNCHANGED <<heap, pre, config_data, result, calls, style_file,
                   style_config, person_config, failed>>

NextMain ==
    \/ LoadStyle
    \/ AugmentStyle
    \/ WriteStyle
    \/ LoadPerson
    \/ AugmentPerson
    \/ WritePerson

SpecMain == InitMain /\ [][NextMain]_vars

(***************************************************************************)
(* Views of the state used by the properties: the entries of               *)
(* config_data["data"] before and after the last call, as documents.       *)
(***************************************************************************)
DataAddr(h) == Get(h[config_data].dict, "data", Ref(0)).ref
NumEntries == Len(pre[DataAddr(pre)].dict)
Entries == 1..NumEntries
EntryIn(i) == pre[DataAddr(pre)].dict[i][2]
EntryOut(i) == heap[DataAddr(heap)].dict[i][2]
TIn(i) == Dump(pre, EntryIn(i))
TOut(i) == Dump(heap, EntryOut(i))

IsTable(doc) == "dict" \in DOMAIN doc
HasTier(doc, k) == Has(doc.dict, k)
Tier(doc, k) == Get(doc.dict, k, EmptyCfg)
NonEmptyTier(doc, k) == HasTier(doc, k) /\ Tier(doc, k).dict # <<>>
Field(cfg, k) == Get(cfg.dict, k, Absent)
FieldNames(cfg) == { cfg.dict[i][1] : i \in 1..Len(cfg.dict) }

RECURSIVE WithoutDerived(_)
\* the items of a table under keys other than xxs and xxl, in order
WithoutDerived(items) ==
    IF items = <<>> THEN <<>>
    ELSE IF Head(items)[1] \in {"xxs", "xxl"} THEN WithoutDerived(Tail(items))
    ELSE <<Head(items)>> \o WithoutDerived(Tail(items))

\* a table the loop of add_enhanced_tiers works on
Processed(doc) ==
    /\ IsTable(doc)
    /\ HasTier(doc, "xs")
    /\ ~(HasTier(doc, "xxs") /\ HasTier(doc, "xxl"))

\* the tier the rules of lines 23-41 and 47-59 make of a config document
FreshXxs(cfg) ==
    LET r == CopyDict(Load(<<>>, cfg).h, Load(<<>>, cfg).v.ref)
    IN  Dump(DeriveXXS(r.h, r.a), Ref(r.a))
FreshXxl(cfg) ==
    LET r == CopyDict(Load(<<>>, cfg).h, Load(<<>>, cfg).v.ref)
    IN  Dump(DeriveXXL(r.h, r.a), Ref(r.a))

(***************************************************************************)
(* C1.  Idempotence: calling add_enhanced_tiers on the registry it         *)
(* returned changes nothing: every table has the same keys, in the same    *)
(* order, with the same values.                                            *)
(***************************************************************************)
C1_Idempotent ==
    calls >= 2 => Dump(heap, Ref(config_data)) = Dump(pre, Ref(config_data))

\* the second call worked on a table holding xxs without xxl, which the
\* loop does not skip
C1_Witness ==
    /\ calls = 2
    /\ \E i \in Entries :
        /\ Processed(TIn(i))
        /\ HasTier(TIn(i), "xxs")
        /\ NonEmptyTier(TIn(i), "xs")

(***************************************************************************)
(* C2 as stated.  For every table with neither xxs nor xxl, the result     *)
(* has xxs exactly when the table has a non-empty xs and xxl exactly when  *)
(* it has a non-empty xl, each decided by its own source tier only.        *)
(***************************************************************************)
C2_EachSourceDecides ==
    calls >= 1 =>
        \A i \in Entries :
            (IsTable(TIn(i)) /\ ~HasTier(TIn(i), "xxs") /\ ~HasTier(TIn(i), "xxl")) =>
                /\ HasTier(TOut(i), "xxs") <=> NonEmptyTier(TIn(i), "xs")
                /\ HasTier(TOut(i), "xxl") <=> NonEmptyTier(TIn(i), "xl")

(***************************************************************************)
(* C2 amended.  For every table with an xs key and neither xxs nor xxl,    *)
(* the result has xxs exactly when xs is non-empty and xxl exactly when    *)
(* the table has a non-empty xl; a table without an xs key is returned     *)
(* unchanged, whatever its xl.                                             *)
(***************************************************************************)
C2_SourceDecidesGivenXs ==
    calls >= 1 =>
        \A i \in Entries :
            (IsTable(TIn(i)) /\ ~HasTier(TIn(i), "xxs") /\ ~HasTier(TIn(i), "xxl")) =>
                IF HasTier(TIn(i), "xs")
                THEN /\ HasTier(TOut(i), "xxs") <=> NonEmptyTier(TIn(i), "xs")
                     /\ HasTier(TOut(i), "xxl") <=> NonEmptyTier(TIn(i), "xl")
                ELSE TOut(i) = TIn(i)

\* a table with a non-empty xl and no xs key went through a call
C2_Witness ==
    /\ calls >= 1
    /\ \E i \in Entries :
        /\ IsTable(TIn(i))
        /\ ~HasTier(TIn(i), "xs") /\ ~HasTier(TIn(i), "xxs") /\ ~HasTier(TIn(i), "xxl")
        /\ NonEmptyTier(TIn(i), "xl")
        /\ ~HasTier(TOut(i), "xxl")

(***************************************************************************)
(* C3.  On every table the loop works on, a derived xxs is the first key   *)
(* of the result and a derived xxl is the last key of the result.          *)
(***************************************************************************)
C3_DerivedAtTheEnds ==
    calls >= 1 =>
        \A i \in Entries :
            Processed(TIn(i)) =>
                /\ NonEmptyTier(TIn(i), "xs") => TOut(i).dict[1][1] = "xxs"
                /\ NonEmptyTier(TIn(i), "xl") =>
                       TOut(i).dict[Len(TOut(i).dict)][1] = "xxl"

(***************************************************************************)
(* C4.  The items of a table under keys other than xxs and xxl are the     *)
(* same, in the same order and with the same fields, before and after a    *)
(* call; an entry the loop skips is the same document after the call; no   *)
(* model is added to or removed from the registry.                         *)
(***************************************************************************)
C4_OtherTiersUntouched ==
    calls >= 1 =>
        /\ Len(heap[DataAddr(heap)].dict) = NumEntries
        /\ \A i \in Entries :
            /\ heap[DataAddr(heap)].dict[i][1] = pre[DataAddr(pre)].dict[i][1]
            /\ IsTable(TIn(i)) =>
                   /\ IsTable(TOut(i))
                   /\ WithoutDerived(TOut(i).dict) = WithoutDerived(TIn(i).dict)
            /\ ~Processed(TIn(i)) => TOut(i) = TIn(i)

\* a table with a middle tier received both derived tiers next to a
\* skipped entry
C4_Witness ==
    /\ calls >= 1
    /\ \E i, j \in Entries :
        /\ ~IsTable(TIn(j))
        /\ Processed(TIn(i))
        /\ HasTier(TIn(i), "m")
        /\ HasTier(TOut(i), "xxs") /\ ~HasTier(TIn(i), "xxs")
        /\ HasTier(TOut(i), "xxl")

(***************************************************************************)
(* C5 as stated.  After a call every object the caller passed in (the      *)
(* registry, its tables, their configs) holds the keys and values it held  *)
(* before.                                                                 *)
(***************************************************************************)
C5_InputUntouched ==
    calls >= 1 => \A a \in 1..Len(pre) : heap[a] = pre[a]

\* the table objects of the registry before the call
TableAddrs == { EntryIn(i).ref : i \in { j \in Entries : IsDict(pre, EntryIn(j)) } }

\* lines 24, 48, 62: with an empty xs and a non-empty xl, xxl is set in the
\* caller's own table
SetsXxlInPlace(a) ==
    /\ a \in TableAddrs
    /\ ~Skipped(pre, Ref(a))
    /\ pre[Get(pre[a].dict, "xs", Ref(0)).ref].dict = <<>>
    /\ Has(pre[a].dict, "xl")
    /\ pre[Get(pre[a].dict, "xl", Ref(0)).ref].dict # <<>>

(***************************************************************************)
(* C5 amended.  add_enhanced_tiers updates the registry in place and       *)
(* returns that same object: the data mapping keeps its keys and each      *)
(* entry the loop works on is rebound to the augmented table.  Every other *)
(* object the caller passed in, every tier config and list among them,     *)
(* holds the keys and values it held before, except that a table with an   *)
(* empty xs and a non-empty xl is modified in place: its xxl key is set.   *)
(***************************************************************************)
C5_OnlyRegistryUpdated ==
    calls >= 1 =>
        /\ result = config_data
        /\ \A a \in 1..Len(pre) :
            IF a = DataAddr(pre)
            THEN /\ Len(heap[a].dict) = Len(pre[a].dict)
                 /\ \A i \in Entries :
                     /\ heap[a].dict[i][1] = pre[a].dict[i][1]
                     /\ Skipped(pre, EntryIn(i)) => EntryOut(i) = EntryIn(i)
            ELSE IF SetsXxlInPlace(a)
            THEN /\ WithoutDerived(heap[a].dict) = WithoutDerived(pre[a].dict)
                 /\ Has(pre[a].dict, "xxs") =>
                        /\ Has(heap[a].dict, "xxs")
                        /\ Get(heap[a].dict, "xxs", Ref(0)) = Get(pre[a].dict, "xxs", Ref(0))
                 /\ Has(heap[a].dict, "xxl")
                 /\ Len(heap[a].dict) = Len(pre[a].dict) + (IF Has(pre[a].dict, "xxl") THEN 0 ELSE 1)
            ELSE heap[a] = pre[a]

\* a call rebound an entry to a new table, and a call wrote xxl into the
\* caller's table
C5_Witness ==
    /\ calls >= 1
    /\ \E i, j \in Entries :
        /\ IsDict(pre, EntryIn(i)) /\ EntryOut(i) # EntryIn(i)
        /\ IsDict(pre, EntryIn(j)) /\ SetsXxlInPlace(EntryIn(j).ref)
        /\ heap[EntryIn(j).ref] # pre[EntryIn(j).ref]

(***************************************************************************)
(* C6.  For every non-empty xl, the xxl of the result has                  *)
(* max_train_epochs = max(8, e - 3), train_batch_size = min(16, b + 4) and *)
(* lr_warmup_steps = w + 30, with e, b, w the xl values or 11, 12, 120     *)
(* when xl lacks the field; so max_train_epochs >= 8 and                   *)
(* train_batch_size <= 16.                                                 *)
(***************************************************************************)
IntOr(cfg, k, dflt) == IF k \in FieldNames(cfg) THEN Field(cfg, k).num ELSE dflt

C6_XxlNumbers ==
    calls >= 1 =>
        \A i \in Entries :
            (Processed(TIn(i)) /\ NonEmptyTier(TIn(i), "xl")) =>
                LET xl == Tier(TIn(i), "xl")
                    xxl == Tier(TOut(i), "xxl")
                    e == IntOr(xl, "max_train_epochs", 11)
                    b == IntOr(xl, "train_batch_size", 12)
                    w == IntOr(xl, "lr_warmup_steps", 120)
                IN  /\ HasTier(TOut(i), "xxl")
                    /\ Field(xxl, "max_train_epochs") = Num(IF e - 3 < 8 THEN 8 ELSE e - 3)
                    /\ Field(xxl, "train_batch_size") = Num(IF b + 4 > 16 THEN 16 ELSE b + 4)
                    /\ Field(xxl, "lr_warmup_steps") = Num(w + 30)
                    /\ Field(xxl, "max_train_epochs").num >= 8
                    /\ Field(xxl, "train_batch_size").num <= 16

\* an xl above the epoch floor, with a clamped batch size and no warmup
\* field, was derived from
C6_Witness ==
    /\ calls >= 1
    /\ \E i \in Entries :
        /\ Processed(TIn(i))
        /\ Field(Tier(TIn(i), "xl"), "max_train_epochs") = Num(12)
        /\ Field(Tier(TIn(i), "xl"), "train_batch_size") = Num(13)
        /\ "lr_warmup_steps" \notin FieldNames(Tier(TIn(i), "xl"))
        /\ Field(Tier(TOut(i), "xxl"), "max_train_epochs") = Num(9)
        /\ Field(Tier(TOut(i), "xxl"), "train_batch_size") = Num(16)
        /\ Field(Tier(TOut(i), "xxl"), "lr_warmup_steps") = Num(150)

(***************************************************************************)
(* C7.  For every non-empty xs of a table without xxs, the xxs of the      *)
(* result is xs with max_train_epochs = (xs value or 38) + 7,              *)
(* train_batch_size = 2, gradient_accumulation_steps = 4, noise_offset =   *)
(* 0.015, lr_scheduler = "constant_with_warmup",                           *)
(* max_data_loader_n_workers = 2, unet_lr and text_encoder_lr times 0.8    *)
(* when present and not added when absent, optimizer_args replaced by the  *)
(* fixed three arguments exactly when the rendering of the xs list         *)
(* contains "weight_decay", and every other field as in xs.                *)
(***************************************************************************)
XxsFixedFields ==
    {"max_train_epochs", "train_batch_size", "gradient_accumulation_steps",
     "noise_offset", "lr_scheduler", "max_data_loader_n_workers"}

RenderingHasWeightDecay(cfg) ==
    /\ "optimizer_args" \in FieldNames(cfg)
    /\ Contains(PyStr(Field(cfg, "optimizer_args").list), WeightDecay)

C7_XxsFields ==
    calls >= 1 =>
        \A i \in Entries :
            (Processed(TIn(i)) /\ NonEmptyTier(TIn(i), "xs") /\ ~HasTier(TIn(i), "xxs")) =>
                LET xs == Tier(TIn(i), "xs")
                    xxs == Tier(TOut(i), "xxs")
                IN  /\ FieldNames(xxs) = FieldNames(xs) \cup XxsFixedFields
                    /\ Len(xxs.dict) = Cardinality(FieldNames(xxs))
                    /\ Field(xxs, "max_train_epochs") = Num(IntOr(xs, "max_train_epochs", 38) + 7)
                    /\ Field(xxs, "train_batch_size") = Num(2)
                    /\ Field(xxs, "gradient_accumulation_steps") = Num(4)
                    /\ Field(xxs, "noise_offset") = Flt(15000000)
                    /\ Field(xxs, "lr_scheduler") = Str("constant_with_warmup")
                    /\ Field(xxs, "max_data_loader_n_workers") = Num(2)
                    /\ \A k \in {"unet_lr", "text_encoder_lr"} \cap FieldNames(xs) :
                           Field(xxs, k) = Flt((Field(xs, k).flt * 8) \div 10)
                    /\ "optimizer_args" \in FieldNames(xs) =>
                           Field(xxs, "optimizer_args") =
                               IF RenderingHasWeightDecay(xs)
                               THEN L(<<ArgBetas, ArgWeightDecay, ArgEps>>)
                               ELSE Field(xs, "optimizer_args")
                    /\ \A k \in FieldNames(xs) \ (XxsFixedFields \cup
                                 {"unet_lr", "text_encoder_lr", "optimizer_args"}) :
                           Field(xxs, k) = Field(xs, k)

\* an xs without max_train_epochs and unet_lr, with a field no rule names
\* and with optimizer_args whose rendering has "weight_decay" inside a
\* longer word, was derived from
C7_Witness ==
    /\ calls >= 1
    /\ \E i \in Entries :
        LET xs == Tier(TIn(i), "xs")
            xxs == Tier(TOut(i), "xxs")
        IN  /\ Processed(TIn(i)) /\ ~HasTier(TIn(i), "xxs")
            /\ FieldNames(xs) = {"text_encoder_lr", "network_dim", "optimizer_args"}
            /\ Len(Field(xs, "optimizer_args").list) = 2
            /\ Field(xxs, "optimizer_args") = L(FixedOptimizerArgs)
            /\ Field(xxs, "max_train_epochs") = Num(45)
            /\ Field(xxs, "network_dim") = Num(32)
            /\ "unet_lr" \notin FieldNames(xxs)

(***************************************************************************)
(* C8 as stated.  When a run of main aborts, neither registry file has     *)
(* been written.                                                           *)
(***************************************************************************)
C8_AbortBeforeAnyWrite ==
    pc = "aborted" => written = {}

(***************************************************************************)
(* C8 amended.  When a run of main aborts on a malformed registry, the     *)
(* file of that registry has not been written: an abort on the style       *)
(* registry happens before any write, an abort on the person registry      *)
(* happens with person_config.json unwritten and style_config.json         *)
(* already rewritten.  A malformed registry always aborts the run: a run   *)
(* that is done has written both files.                                    *)
(***************************************************************************)
C8_AbortBeforeOwnWrite ==
    /\ pc = "aborted" =>
        /\ failed \in {"style", "person"}
        /\ failed = "style" => written = {}
        /\ failed = "person" => written = {"style"}
    /\ pc = "done" => written = {"style", "person"}
    /\ "style" \notin written => (pc \in {"load_style", "augment_style", "write_style", "aborted"})
    /\ (Unreadable(person_file) \/ ~IsTable(person_file)
            \/ ~Has(person_file.dict, "data")
            \/ ~IsTable(Get(person_file.dict, "data", Absent)))
          => (pc # "done" /\ "person" \notin written)

\* the run aborted on the person registry after it rewrote the style file
C8_Witness ==
    /\ pc = "aborted"
    /\ failed = "person"
    /\ "style" \in written
    /\ ~Unreadable(person_file)

(***************************************************************************)
(* C9.  A derived tier shares no list with its source tier: a list-valued  *)
(* field of xxs (of xxl) is another object than the field of xs (of xl).   *)
(***************************************************************************)
SharesList(h, derived, source) ==
    \E i \in 1..Len(h[derived].dict), j \in 1..Len(h[source].dict) :
        /\ IsRef(h[derived].dict[i][2])
        /\ h[derived].dict[i][2] = h[source].dict[j][2]

C9_NoSharedList ==
    calls >= 1 =>
        \A i \in Entries :
            IsDict(heap, EntryOut(i)) =>
                LET t == heap[EntryOut(i).ref].dict
                IN  /\ (Has(t, "xxs") /\ Has(t, "xs")) =>
                           ~SharesList(heap, Get(t, "xxs", Ref(0)).ref, Get(t, "xs", Ref(0)).ref)
                    /\ (Has(t, "xxl") /\ Has(t, "xl")) =>
                           ~SharesList(heap, Get(t, "xxl", Ref(0)).ref, Get(t, "xl", Ref(0)).ref)

(***************************************************************************)
(* C10.  On every table the loop works on, a tier the loop computes is in  *)
(* the result with the freshly derived value: xxs is the tier made of xs   *)
(* when xs is non-empty, xxl the tier made of xl when xl is non-empty,     *)
(* also when the table already held an xxs or an xxl.                      *)
(***************************************************************************)
C10_FreshValues ==
    calls >= 1 =>
        \A i \in Entries :
            Processed(TIn(i)) =>
                /\ NonEmptyTier(TIn(i), "xs") =>
                       Tier(TOut(i), "xxs") = FreshXxs(Tier(TIn(i), "xs"))
                /\ NonEmptyTier(TIn(i), "xl") =>
                       Tier(TOut(i), "xxl") = FreshXxl(Tier(TIn(i), "xl"))

====
